---- MODULE Spec2Model ----
(***************************************************************************)
(* Model of the claim-verification pipeline of app.py: the three external  *)
(* clients (fact_check_search, web_verify, _generate_with_model), the JSON *)
(* extraction (_extract_json_from_text) and the cascade of verify_claim.   *)
(*                                                                         *)
(* Python values are records [t, n, s, l]: t is the Python type, n the     *)
(* number in hundredths (0.95 is 95), s the string, l the list of strings. *)
(* A dict is a function from Keys to values, Absent marking a missing key. *)
(***************************************************************************)
EXTENDS Integers, Sequences, FiniteSets, TLC

\* ------------------------------------------------------------------------
\* Bounds of the model
\* ------------------------------------------------------------------------
\* longest text, in tokens, handed to _extract_json_from_text on its own
MaxLen == 5
\* most articles in one NewsAPI answer
MaxArticles == 4

\* ------------------------------------------------------------------------
\* Python values
\* ------------------------------------------------------------------------
Absent == [t |-> "absent", n |-> 0, s |-> "", l |-> <<>>]
None == [t |-> "none", n |-> 0, s |-> "", l |-> <<>>]
Num(x) == [t |-> "num", n |-> x, s |-> "", l |-> <<>>]
Str(x) == [t |-> "str", n |-> 0, s |-> x, l |-> <<>>]
List(x) == [t |-> "list", n |-> 0, s |-> "", l |-> x]
Bool(b) == [t |-> "bool", n |-> IF b THEN 1 ELSE 0, s |-> "", l |-> <<>>]

\* bool(v): None, 0, "", [] and False are falsy
Truthy(v) ==
    CASE v.t = "none" -> FALSE
      [] v.t = "absent" -> FALSE
      [] v.t = "num" -> v.n # 0
      [] v.t = "bool" -> v.n # 0
      [] v.t = "str" -> v.s # ""
      [] v.t = "list" -> v.l # <<>>
      [] OTHER -> TRUE

\* a or b
Or(a, b) == IF Truthy(a) THEN a ELSE b

\* fields of the result dict, and one field the schema does not know
Keys == {"claim", "domain", "status", "confidence", "explanation", "sources", "extra"}
ResultKeys == {"claim", "domain", "status", "confidence", "explanation", "sources"}

EmptyDict == [k \in Keys |-> Absent]

\* k in d
Has(d, k) == d[k].t # "absent"
\* d.get(k)
Get(d, k) == IF Has(d, k) THEN d[k] ELSE None
\* d.get(k, dflt)
GetDefault(d, k, dflt) == IF Has(d, k) THEN d[k] ELSE dflt
\* d[k] = v
Put(d, k, v) == [d EXCEPT ![k] = v]
\* d.setdefault(k, v)
SetDefault(d, k, v) == IF Has(d, k) THEN d ELSE Put(d, k, v)

\* ------------------------------------------------------------------------
\* Trusted sources and the normalization of the domain
\* ------------------------------------------------------------------------
DOMAIN_SOURCES ==
    [Health |-> <<"WHO", "CDC", "NIH", "ICMR", "PubMed", "MedlinePlus">>,
     Politics |-> <<"Election Commission", "UN", "Reuters", "BBC", "Press Information Bureau India">>,
     Science |-> <<"Nature", "Science", "arXiv", "IEEE", "PLOS">>,
     Finance |-> <<"RBI", "SEBI", "World Bank", "IMF", "Economic Times">>,
     Climate |-> <<"IPCC", "NASA Climate", "NOAA", "UNEP", "MoEFCC India">>,
     Technology |-> <<"IEEE", "ACM", "Nature Tech", "ScienceDirect">>,
     General |-> <<"Reuters", "BBC", "AP News", "The Hindu">>]

\* the characters of each key of the table
Spelling ==
    [Health |-> <<"H", "e", "a", "l", "t", "h">>,
     Politics |-> <<"P", "o", "l", "i", "t", "i", "c", "s">>,
     Science |-> <<"S", "c", "i", "e", "n", "c", "e">>,
     Finance |-> <<"F", "i", "n", "a", "n", "c", "e">>,
     Climate |-> <<"C", "l", "i", "m", "a", "t", "e">>,
     Technology |-> <<"T", "e", "c", "h", "n", "o", "l", "o", "g", "y">>,
     General |-> <<"G", "e", "n", "e", "r", "a", "l">>]

LowerCase == <<"a", "b", "c", "d", "e", "f", "g", "h", "i", "j", "k", "l", "m",
               "n", "o", "p", "q", "r", "s", "t", "u", "v", "w", "x", "y", "z">>
UpperCase == <<"A", "B", "C", "D", "E", "F", "G", "H", "I", "J", "K", "L", "M",
               "N", "O", "P", "Q", "R", "S", "T", "U", "V", "W", "X", "Y", "Z">>

IsLower(c) == \E i \in 1..26 : LowerCase[i] = c
IsUpper(c) == \E i \in 1..26 : UpperCase[i] = c
IsCased(c) == IsLower(c) \/ IsUpper(c)
ToUpper(c) == IF IsLower(c) THEN UpperCase[CHOOSE i \in 1..26 : LowerCase[i] = c] ELSE c
ToLower(c) == IF IsUpper(c) THEN LowerCase[CHOOSE i \in 1..26 : UpperCase[i] = c] ELSE c

\* str.title(): a cased character is upper-cased when it starts a word (the
\* character before it is not cased) and lower-cased otherwise
Title(cs) ==
    [i \in 1..Len(cs) |->
        IF i > 1 /\ IsCased(cs[i - 1]) THEN ToLower(cs[i]) ELSE ToUpper(cs[i])]

\* a domain argument: a string (its characters) or a value of another type
StrDomain(cs) == [isStr |-> TRUE, chars |-> cs]
OtherDomain == [isStr |-> FALSE, chars |-> <<>>]

\* domain_key with the default of the signature ("Health") for a domain
\* outside the table
DomainKey_DefaultHealth(d) ==
    IF d.isStr /\ \E k \in DOMAIN DOMAIN_SOURCES : Spelling[k] = Title(d.chars)
    THEN CHOOSE k \in DOMAIN DOMAIN_SOURCES : Spelling[k] = Title(d.chars)
    ELSE "Health"

\* domain_key of verify_claim
DomainKey(d) ==
    IF d.isStr /\ \E k \in DOMAIN DOMAIN_SOURCES : Spelling[k] = Title(d.chars)
    THEN CHOOSE k \in DOMAIN DOMAIN_SOURCES : Spelling[k] = Title(d.chars)
    ELSE "General"

\* ------------------------------------------------------------------------
\* fact_check_search
\* ------------------------------------------------------------------------
ReviewKeys == {"textualRating", "title", "explanation", "url"}

EmptyReview == [k \in ReviewKeys |-> Absent]

\* what can stand under a key of a review: nothing, "" or a text
Reviews ==
    [textualRating : {Absent, Str(""), Str("False")},
     title : {Absent, Str(""), Str("Debunked by CDC")},
     explanation : {Absent, Str("why")},
     url : {Absent, Str(""), Str("https://cdc.gov/x")}]

\* shapes of a parsed answer of the fact-check service
FcShapes ==
    {"list",              \* the body is not an object
     "empty_dict",        \* {}
     "no_claims",         \* an object without "claims"
     "claims_empty",      \* "claims": []
     "claims_number",     \* "claims": 5
     "claims_dict",       \* "claims": {"a": 1}
     "claim_not_dict",    \* "claims": ["x"]
     "no_review",         \* "claims": [{}]
     "review_empty",      \* "claims": [{"claimReview": []}]
     "review_not_list",   \* "claims": [{"claimReview": null}]
     "review_not_dict",   \* "claims": [{"claimReview": ["x"]}]
     "review_ok"}         \* "claims": [{"claimReview": [review, ...]}, ...]

FcBody(shape, review) == [shape |-> shape, review |-> review]

FcBodies ==
    {FcBody(sh, EmptyReview) : sh \in FcShapes \ {"review_ok"}}
        \cup {FcBody("review_ok", r) : r \in Reviews}

\* what the HTTP request of fact_check_search can do
FcOutcomes == {"transport_error", "non200", "bad_body", "ok"}

FcResponses ==
    {[outcome |-> o, body |-> FcBody("empty_dict", EmptyReview)] :
        o \in FcOutcomes \ {"ok"}}
        \cup {[outcome |-> "ok", body |-> b] : b \in FcBodies}

\* the response that stands for "no request was made"
NoFcResponse == [outcome |-> "none", body |-> FcBody("empty_dict", EmptyReview)]

\* fact_check_search: the parsed body of a 200 answer, {} otherwise
fact_check_search(key, r) ==
    IF ~key THEN FcBody("empty_dict", EmptyReview)
    ELSE IF r.outcome = "ok" THEN r.body
    ELSE FcBody("empty_dict", EmptyReview)

\* ------------------------------------------------------------------------
\* web_verify
\* ------------------------------------------------------------------------
\* most URLs web_verify keeps
MaxUrls == 3

\* the "url" of an article: missing, empty or a URL
ArticleUrls == {Absent, Str(""), Str("u1"), Str("u2")}

ArticleLists == UNION {[1..n -> ArticleUrls] : n \in 0..MaxArticles}

WebOutcomes == {"transport_error", "bad_body", "bad_articles", "ok"}

WebResponses ==
    {[outcome |-> o, articles |-> <<>>] : o \in WebOutcomes \ {"ok"}}
        \cup {[outcome |-> "ok", articles |-> a] : a \in ArticleLists}

\* the response that stands for "no request was made"
NoWebResponse == [outcome |-> "none", articles |-> <<>>]

Min(a, b) == IF a < b THEN a ELSE b

\* the URLs of the first articles without the test of the URL:
\* [a.get("url") for a in articles[:3]], a missing URL showing as ""
TopUrls_NoFilter(articles) ==
    LET first == SubSeq(articles, 1, Min(MaxUrls, Len(articles)))
    IN  [i \in 1..Len(first) |-> first[i].s]

\* [a.get("url") for a in articles[:3] if a.get("url")]
TopUrls(articles) ==
    LET first == SubSeq(articles, 1, Min(MaxUrls, Len(articles)))
        kept == SelectSeq(first, LAMBDA u : Truthy(Get([url |-> u], "url")))
    IN  [i \in 1..Len(kept) |-> kept[i].s]

\* web_verify: the list of URLs, [] without a key and on any exception
web_verify(key, r) ==
    IF ~key THEN <<>>
    ELSE IF r.outcome = "ok" THEN TopUrls(r.articles)
    ELSE <<>>

\* ------------------------------------------------------------------------
\* Texts of the model and _extract_json_from_text
\* ------------------------------------------------------------------------
\* A text is a sequence of tokens: the brackets of JSON, "M" for the members
\* of an object (the key/value pairs between its braces), "N" for a number,
\* "W" for a word of prose, "F" for a formatting fence, "NL" for a newline.
Tokens == {"{", "}", "[", "]", "M", "N", "W", "F"}

IsSpace(tok) == tok = "NL"

\* json.loads on a text: the kind of the top-level value, "fail" when the
\* text is not JSON.  White space between tokens is skipped.
RECURSIVE ValueKind(_)
ValueKind(s) ==
    IF s = <<"N">> THEN "scalar"
    ELSE IF s = <<"{", "}">> \/ s = <<"{", "M", "}">> THEN "dict"
    ELSE IF Len(s) >= 2 /\ s[1] = "[" /\ s[Len(s)] = "]"
         THEN IF Len(s) = 2 \/ ValueKind(SubSeq(s, 2, Len(s) - 1)) # "fail"
              THEN "list" ELSE "fail"
    ELSE "fail"

JsonKind(text) == ValueKind(SelectSeq(text, LAMBDA tok : ~IsSpace(tok)))

\* the dict json.loads returns for a text of kind "dict": obj is the dict
\* the members "M" spell
JsonDict(text, obj) ==
    IF \E i \in 1..Len(text) : text[i] = "M" THEN obj ELSE EmptyDict

\* re.search(r"\{.*\}", text, flags=re.DOTALL): from the first "{" to the
\* last "}" after it
HasBraceBlock(text) ==
    \E i, j \in 1..Len(text) : i < j /\ text[i] = "{" /\ text[j] = "}"

BraceBlock(text) ==
    LET i == CHOOSE a \in 1..Len(text) :
                 text[a] = "{" /\ \A b \in 1..(a - 1) : text[b] # "{"
        j == CHOOSE a \in 1..Len(text) :
                 text[a] = "}" /\ \A b \in (a + 1)..Len(text) : text[b] # "}"
    IN  SubSeq(text, i, j)

\* the value "no dict" of _extract_json_from_text
NoDict == [isDict |-> FALSE, d |-> EmptyDict]
IsDict(d) == [isDict |-> TRUE, d |-> d]

\* _extract_json_from_text(text); obj is the dict the members of the text spell
_extract_json_from_text(text, obj) ==
    IF text = <<>> THEN NoDict
    ELSE IF JsonKind(text) = "dict" THEN IsDict(JsonDict(text, obj))
    ELSE IF HasBraceBlock(text) /\ JsonKind(BraceBlock(text)) = "dict"
         THEN IsDict(JsonDict(BraceBlock(text), obj))
    ELSE NoDict

\* ------------------------------------------------------------------------
\* _generate_with_model
\* ------------------------------------------------------------------------
\* "\n".join(pieces)
RECURSIVE JoinLines(_)
JoinLines(pieces) ==
    IF pieces = <<>> THEN <<>>
    ELSE IF Len(pieces) = 1 THEN pieces[1]
    ELSE pieces[1] \o <<"NL">> \o JoinLines(Tail(pieces))

\* (text, err) of _generate_with_model, and whether it raised instead
GenText(toks) == [raised |-> FALSE, absent |-> FALSE, toks |-> toks, err |-> "none"]
GenError(err) == [raised |-> FALSE, absent |-> TRUE, toks |-> <<>>, err |-> err]
GenRaised == [raised |-> TRUE, absent |-> TRUE, toks |-> <<>>, err |-> "none"]

\* _generate_with_model without the test of model is None: the use of the
\* missing model raises
_generate_with_model_NoCheck(model, r) ==
    IF ~model THEN GenRaised
    ELSE IF r.shape = "request_failed" THEN GenError("request_failed")
    ELSE IF r.shape = "text" THEN GenText(r.pieces[1])
    ELSE IF r.shape = "text_raises" THEN GenRaised
    ELSE IF r.shape = "content_list" THEN GenText(JoinLines(r.pieces))
    ELSE GenText(r.pieces[1])

\* A response of the model client: shape says what generate_content did
\* ("request_failed": it raised) or which attribute carries the text
\* ("text"; "text_raises": the text accessor raises an error other than
\* AttributeError, as the accessor of a response without a valid part does;
\* "content_list", "content_dict", "content_other"; "plain": neither).
_generate_with_model(model, r) ==
    IF ~model THEN GenError("not_configured")
    ELSE IF r.shape = "request_failed" THEN GenError("request_failed")
    ELSE IF r.shape = "text" THEN GenText(r.pieces[1])
    ELSE IF r.shape = "text_raises" THEN GenRaised
    ELSE IF r.shape = "content_list" THEN GenText(JoinLines(r.pieces))
    ELSE GenText(r.pieces[1])

\* if text: (None and "" are falsy)
TextTruthy(g) == ~g.absent /\ g.toks # <<>>

\* ------------------------------------------------------------------------
\* verify_claim: the three stages
\* ------------------------------------------------------------------------
\* the confidence of a result of the fact-check stage, in hundredths
FactCheckConfidence == 95
\* the confidence of the result of stage 2 when the model gave no dict
DegradedConfidence == 40
\* the confidence of the last fallback
FallbackConfidence == 30

NoResult == EmptyDict

Result(claim, domain, status, confidence, explanation, srcs) ==
    [k \in Keys |->
        CASE k = "claim" -> claim
          [] k = "domain" -> domain
          [] k = "status" -> status
          [] k = "confidence" -> confidence
          [] k = "explanation" -> explanation
          [] k = "sources" -> srcs
          [] OTHER -> Absent]

\* the condition of the fact-check branch is evaluated without an exception
\* and is true: fc and isinstance(fc, dict) and "claims" in fc and
\* len(fc["claims"]) > 0
Stage1Enters(fc) ==
    fc.shape \in {"claims_dict", "claim_not_dict", "no_review", "review_empty",
                  "review_not_list", "review_not_dict", "review_ok"}

\* the try block with claim_data["claimReview"][0]: a claim without
\* claimReview raises too
Stage1Raises_NoDefault(fc) ==
    fc.shape \in {"claims_number", "claims_dict", "claim_not_dict", "no_review",
                  "review_empty", "review_not_list", "review_not_dict"}

\* the statements of the try block that raise: len() of a number, [0] of a
\* dict or of an empty list or of None, .get of a string
Stage1Raises(fc) ==
    fc.shape \in {"claims_number", "claims_dict", "claim_not_dict",
                  "review_empty", "review_not_list", "review_not_dict"}

\* claim_data.get("claimReview", [{}])[0]
Stage1Review(fc) == IF fc.shape = "no_review" THEN EmptyReview ELSE fc.review

\* the result of stage 1 with the status taken from the title first
Stage1Result_TitleFirst(fc, claim, domain_key) ==
    LET review == Stage1Review(fc)
        status == Or(Or(Get(review, "title"), Get(review, "textualRating")),
                     Str("Unverified"))
        explanation == Or(Or(Or(Get(review, "title"), Get(review, "textualRating")),
                             Get(review, "explanation")), Str(""))
        url == Or(Get(review, "url"), Str(""))
    IN  Result(Str(claim), Str(domain_key), status, Num(FactCheckConfidence),
               explanation, IF Truthy(url) THEN List(<<url.s>>) ELSE List(<<>>))

\* the result of stage 1
Stage1Result(fc, claim, domain_key) ==
    LET review == Stage1Review(fc)
        status == Or(Or(Get(review, "textualRating"), Get(review, "title")),
                     Str("Unverified"))
        explanation == Or(Or(Or(Get(review, "title"), Get(review, "textualRating")),
                             Get(review, "explanation")), Str(""))
        url == Or(Get(review, "url"), Str(""))
    IN  Result(Str(claim), Str(domain_key), status, Num(FactCheckConfidence),
               explanation, IF Truthy(url) THEN List(<<url.s>>) ELSE List(<<>>))

\* stage 1 returns a result; otherwise the cascade goes on
Stage1Returns(fc) == Stage1Enters(fc) /\ ~Stage1Raises(fc)

\* float(s) of a string: the number it spells, none for other strings
FloatOfStr == [s \in {"0.7", "5", "-1"} |->
                  CASE s = "0.7" -> 70 [] s = "5" -> 500 [] s = "-1" -> -100]

\* float(v) raises for None, lists and strings that spell no number
FloatRaises(v) ==
    CASE v.t = "num" -> FALSE
      [] v.t = "bool" -> FALSE
      [] v.t = "str" -> v.s \notin DOMAIN FloatOfStr
      [] OTHER -> TRUE

Float(v) ==
    CASE v.t = "num" -> v.n
      [] v.t = "bool" -> v.n * 100
      [] v.t = "str" -> FloatOfStr[v.s]

\* try: float(parsed.get("confidence", 0) or 0)  except: 0.0
Confidence(parsed) ==
    LET c == Or(GetDefault(parsed, "confidence", Num(0)), Num(0))
    IN  IF FloatRaises(c) THEN Num(0) ELSE Num(Float(c))

\* the sanitizing of stage 2 that always writes the URLs of the news search
\* over the sources of the model
NormalizeWeb_AlwaysSubstitutes(parsed, claim, domain_key, sources) ==
    LET p1 == Put(parsed, "confidence", Confidence(parsed))
        p2 == Put(p1, "sources", List(sources))
        p3 == SetDefault(p2, "claim", Str(claim))
        p4 == SetDefault(p3, "domain", Str(domain_key))
        p5 == SetDefault(p4, "status", Str("Unverified"))
    IN  SetDefault(p5, "explanation",
                   GetDefault(p5, "explanation", Str("No explanation provided")))

\* the sanitizing of the dict of the model in stage 2
NormalizeWeb(parsed, claim, domain_key, sources) ==
    LET p1 == Put(parsed, "confidence", Confidence(parsed))
        p2 == IF ~Has(p1, "sources") \/ ~Truthy(Get(p1, "sources"))
              THEN Put(p1, "sources", List(sources)) ELSE p1
        p3 == SetDefault(p2, "claim", Str(claim))
        p4 == SetDefault(p3, "domain", Str(domain_key))
        p5 == SetDefault(p4, "status", Str("Unverified"))
    IN  SetDefault(p5, "explanation",
                   GetDefault(p5, "explanation", Str("No explanation provided")))

\* the degraded result with the confidence of the last fallback
DegradedResult_FallbackConfidence(claim, domain_key, sources) ==
    Result(Str(claim), Str(domain_key), Str("Unverified"), Num(FallbackConfidence),
           Str("Insufficient verifiable evidence from news + model response unparsable."),
           List(sources))

\* the result of stage 2 when the model gave no text or no dict
DegradedResult(claim, domain_key, sources) ==
    Result(Str(claim), Str(domain_key), Str("Unverified"), Num(DegradedConfidence),
           Str("Insufficient verifiable evidence from news + model response unparsable."),
           List(sources))

\* the sanitizing of stage 3 that fills in the sources only when the key is
\* missing: an empty or null value stays
NormalizeTrusted_KeepsEmpty(parsed, claim, domain_key, fallback_sources) ==
    LET p1 == Put(parsed, "confidence", Confidence(parsed))
        p2 == IF ~Has(p1, "sources")
              THEN Put(p1, "sources", List(fallback_sources)) ELSE p1
        p3 == SetDefault(p2, "claim", Str(claim))
        p4 == SetDefault(p3, "domain", Str(domain_key))
        p5 == SetDefault(p4, "status", Str("Unverified"))
    IN  SetDefault(p5, "explanation",
                   GetDefault(p5, "explanation", Str("No explanation provided")))

\* the sanitizing of the dict of the model in stage 3
NormalizeTrusted(parsed, claim, domain_key, fallback_sources) ==
    LET p1 == Put(parsed, "confidence", Confidence(parsed))
        p2 == IF ~Has(p1, "sources") \/ ~Truthy(Get(p1, "sources"))
              THEN Put(p1, "sources", List(fallback_sources)) ELSE p1
        p3 == SetDefault(p2, "claim", Str(claim))
        p4 == SetDefault(p3, "domain", Str(domain_key))
        p5 == SetDefault(p4, "status", Str("Unverified"))
    IN  SetDefault(p5, "explanation",
                   GetDefault(p5, "explanation", Str("No explanation provided")))

\* the last fallback without its sources
FallbackResult_NoSources(claim, domain_key, fallback_sources) ==
    Result(Str(claim), Str(domain_key), Str("Unverified"), Num(FallbackConfidence),
           Str("No fact-check / news results and model could not provide a parseable response."),
           List(<<>>))

\* the last fallback
FallbackResult(claim, domain_key, fallback_sources) ==
    Result(Str(claim), Str(domain_key), Str("Unverified"), Num(FallbackConfidence),
           Str("No fact-check / news results and model could not provide a parseable response."),
           List(fallback_sources))

\* what a stage hands back: it raised, or it returned a result
Raised == [raised |-> TRUE, result |-> NoResult]
Returned(r) == [raised |-> FALSE, result |-> r]

\* stage 2 from the call of the model on: the text, the dict, the result
Stage2(model, r, claim, domain_key, sources) ==
    LET g == _generate_with_model(model, r)
        parsed == _extract_json_from_text(g.toks, r.obj)
    IN  IF g.raised THEN Raised
        ELSE IF TextTruthy(g) /\ parsed.isDict
             THEN Returned(NormalizeWeb(parsed.d, claim, domain_key, sources))
        ELSE Returned(DegradedResult(claim, domain_key, sources))

\* stage 3 from the call of the model on, with the list looked up in the
\* table
Stage3From(model, r, claim, domain_key, fallback_sources) ==
    LET g == _generate_with_model(model, r)
        parsed == _extract_json_from_text(g.toks, r.obj)
    IN  IF g.raised THEN Raised
        ELSE IF TextTruthy(g) /\ parsed.isDict
             THEN Returned(NormalizeTrusted(parsed.d, claim, domain_key, fallback_sources))
        ELSE Returned(FallbackResult(claim, domain_key, fallback_sources))

\* stage 3 from the look-up of the trusted sources on
Stage3(model, r, claim, domain_key) ==
    Stage3From(model, r, claim, domain_key, DOMAIN_SOURCES[domain_key])

\* ------------------------------------------------------------------------
\* Inputs: requests and answers of the model
\* ------------------------------------------------------------------------
Claims == {"Vaccines cause autism"}

\* "health", "CLIMATE", "General", "bogus", and a domain that is no string
DomainInputs ==
    {StrDomain(<<"h", "e", "a", "l", "t", "h">>),
     StrDomain(<<"C", "L", "I", "M", "A", "T", "E">>),
     StrDomain(<<"G", "e", "n", "e", "r", "a", "l">>),
     StrDomain(<<"b", "o", "g", "u", "s">>),
     OtherDomain}

\* what the model can put under each key of its JSON object
FieldValues ==
    [claim |-> {Str("another claim")},
     domain |-> {Str("Health"), Str("astrology"), None},
     status |-> {Str("False"), None, Num(100)},
     confidence |-> {Num(50), Num(500), Num(-100), Num(0), None, Bool(TRUE),
                     Str("0.7"), Str("5"), Str("high"), List(<<"u9">>)},
     explanation |-> {Str("because"), None},
     sources |-> {List(<<"m1", "m2">>), List(<<>>), None, Str("m1")},
     extra |-> {Str("x")}]

\* an object with every field of the schema, well typed
FullDict ==
    Result(Str("Vaccines cause autism"), Str("Health"), Str("False"), Num(80),
           Str("because"), List(<<"m1">>))

\* the objects of the model: the empty one, the full one, and each of the two
\* with one key set to one of its values
ModelDicts ==
    {EmptyDict, FullDict}
        \cup {Put(EmptyDict, k, v) : <<k, v>> \in
                 UNION {{<<key, val>> : val \in FieldValues[key]} : key \in Keys}}
        \cup {Put(FullDict, k, v) : <<k, v>> \in
                 UNION {{<<key, val>> : val \in FieldValues[key]} : key \in Keys}}

\* texts around one object: bare, in prose, in fences, in an array
ObjectTexts ==
    {<<"{", "M", "}">>, <<"W", "{", "M", "}", "W">>, <<"F", "{", "M", "}", "F">>,
     <<"[", "{", "M", "}", "]">>}

\* texts that spell no members
OtherTexts ==
    {<<>>, <<"W">>, <<"N">>, <<"{", "}">>, <<"[", "]">>, <<"W", "{", "W", "}">>}

ModelResponse(shape, pieces, obj) == [shape |-> shape, pieces |-> pieces, obj |-> obj]

NoModelResponse == ModelResponse("none", <<>>, EmptyDict)

ModelResponses ==
    {ModelResponse("request_failed", <<>>, EmptyDict),
     ModelResponse("text_raises", <<>>, EmptyDict)}
        \cup {ModelResponse("text", <<t>>, d) : t \in ObjectTexts, d \in ModelDicts}
        \cup {ModelResponse("text", <<t>>, EmptyDict) : t \in OtherTexts}
        \cup {ModelResponse("content_list", ps, FullDict) :
                 ps \in {<<>>, <<<<"W">>>>, <<<<"W">>, <<"{", "M", "}">>>>,
                         <<<<"{">>, <<"M">>, <<"}">>>>}}
        \cup {ModelResponse(sh, <<t>>, FullDict) :
                 sh \in {"content_dict", "content_other", "plain"},
                 t \in {<<"W">>, <<"{", "M", "}">>}}

\* ------------------------------------------------------------------------
\* One request to verify_claim
\* ------------------------------------------------------------------------
VARIABLES
    pc,              \* where verify_claim stands: "idle", "stage1", "stage2",
                     \* "model2", "model3", "done" (returned), "raised"
    fact_check_key,  \* whether the credential of the fact-check service is set
    newsapi_key,     \* whether the credential of the news service is set
    model,           \* whether the model is configured (model is not None)
    claim,           \* the claim argument
    domain,          \* the domain argument
    domain_key,      \* the normalized domain
    fcResp,          \* what the fact-check service answered
    fc,              \* the value of fact_check_search
    webResp,         \* what the news request did
    sources,         \* the value of web_verify
    modelResp,       \* what the model client answered
    prompt,          \* the stage, the domain and the sources put in the prompt
    calls,           \* the services called so far, in order
    result,          \* the returned dict
    jtext,           \* a text handed to _extract_json_from_text on its own
    jobj,            \* the dict the members of jtext spell
    jout,            \* what _extract_json_from_text returned for jtext
    wResp,           \* what the news request did, for web_verify on its own
    wOut,            \* what web_verify returned for wResp
    reqs,            \* the local variables of each of the concurrent requests
    table            \* the global DOMAIN_SOURCES the concurrent requests read

vars == <<pc, fact_check_key, newsapi_key, model, claim, domain, domain_key,
          fcResp, fc, webResp, sources, modelResp, prompt, calls, result,
          jtext, jobj, jout, wResp, wOut, reqs, table>>

NoPrompt == [stage |-> 0, domain |-> "", sources |-> <<>>]

Init ==
    /\ pc = "idle"
    /\ fact_check_key \in BOOLEAN
    /\ newsapi_key \in BOOLEAN
    /\ model \in BOOLEAN
    /\ claim = ""
    /\ domain = OtherDomain
    /\ domain_key = "General"
    /\ fcResp = NoFcResponse
    /\ fc = FcBody("empty_dict", EmptyReview)
    /\ webResp = "none"
    /\ sources = <<>>
    /\ modelResp = NoModelResponse
    /\ prompt = NoPrompt
    /\ calls = <<>>
    /\ result = NoResult
    /\ jtext = <<>>
    /\ jobj = EmptyDict
    /\ jout = NoDict
    /\ wResp = NoWebResponse
    /\ wOut = <<>>
    /\ reqs = <<>>
    /\ table = DOMAIN_SOURCES

\* verify_claim is called; the domain is normalized
Request ==
    /\ pc = "idle"
    /\ \E c \in Claims, d \in DomainInputs :
        /\ claim' = c
        /\ domain' = d
        /\ domain_key' = DomainKey(d)
    /\ pc' = "stage1"
    /\ UNCHANGED <<fact_check_key, newsapi_key, model, fcResp, fc, webResp,
                   sources, modelResp, prompt, calls, result, jtext, jobj, jout, wResp, wOut, reqs, table>>

\* stage 1 without the try/except: an exception of the branch leaves
\* verify_claim
FactCheckStage_Propagates ==
    /\ pc = "stage1"
    /\ \E r \in IF fact_check_key THEN FcResponses ELSE {NoFcResponse} :
        /\ fcResp' = r
        /\ fc' = fact_check_search(fact_check_key, r)
    /\ calls' = IF fact_check_key THEN Append(calls, "factcheck") ELSE calls
    /\ IF Stage1Returns(fc')
       THEN /\ result' = Stage1Result(fc', claim, domain_key)
            /\ pc' = "done"
       ELSE /\ result' = result
            /\ pc' = IF Stage1Raises(fc') THEN "raised" ELSE "stage2"
    /\ UNCHANGED <<fact_check_key, newsapi_key, model, claim, domain, domain_key,
                   webResp, sources, modelResp, prompt, jtext, jobj, jout, wResp, wOut, reqs, table>>

\* 1) the fact-check service is asked; a usable review ends the request
FactCheckStage ==
    /\ pc = "stage1"
    /\ \E r \in IF fact_check_key THEN FcResponses ELSE {NoFcResponse} :
        /\ fcResp' = r
        /\ fc' = fact_check_search(fact_check_key, r)
    /\ calls' = IF fact_check_key THEN Append(calls, "factcheck") ELSE calls
    /\ IF Stage1Returns(fc')
       THEN /\ result' = Stage1Result(fc', claim, domain_key)
            /\ pc' = "done"
       ELSE /\ result' = result
            /\ pc' = "stage2"
    /\ UNCHANGED <<fact_check_key, newsapi_key, model, claim, domain, domain_key,
                   webResp, sources, modelResp, prompt, jtext, jobj, jout, wResp, wOut, reqs, table>>

\* 2) the news service is asked
WebSearchStage ==
    /\ pc = "stage2"
    /\ \E r \in IF newsapi_key THEN WebResponses ELSE {NoWebResponse} :
        /\ webResp' = r.outcome
        /\ sources' = web_verify(newsapi_key, r)
    /\ calls' = IF newsapi_key THEN Append(calls, "web") ELSE calls
    /\ pc' = IF sources' # <<>> THEN "model2" ELSE "model3"
    /\ UNCHANGED <<fact_check_key, newsapi_key, model, claim, domain, domain_key,
                   fcResp, fc, modelResp, prompt, result, jtext, jobj, jout, wResp, wOut, reqs, table>>

\* stage 2 that falls through to stage 3 when the model gave no dict,
\* instead of returning the degraded result
WebModelStage_FallsThrough ==
    /\ pc = "model2"
    /\ prompt' = [stage |-> 2, domain |-> domain_key, sources |-> sources]
    /\ \E r \in IF model THEN ModelResponses ELSE {NoModelResponse} :
        /\ modelResp' = r
        /\ LET out == Stage2(model, r, claim, domain_key, sources)
           IN  IF out.raised
               THEN pc' = "raised" /\ result' = out.result
               ELSE IF out.result = DegradedResult(claim, domain_key, sources)
               THEN pc' = "model3" /\ result' = result
               ELSE pc' = "done" /\ result' = out.result
    /\ calls' = IF model THEN Append(calls, "model") ELSE calls
    /\ UNCHANGED <<fact_check_key, newsapi_key, model, claim, domain, domain_key,
                   fcResp, fc, webResp, sources, jtext, jobj, jout, wResp, wOut, reqs, table>>

\* 2) the model is asked about the URLs of the news service
WebModelStage ==
    /\ pc = "model2"
    /\ prompt' = [stage |-> 2, domain |-> domain_key, sources |-> sources]
    /\ \E r \in IF model THEN ModelResponses ELSE {NoModelResponse} :
        /\ modelResp' = r
        /\ LET out == Stage2(model, r, claim, domain_key, sources)
           IN  /\ pc' = IF out.raised THEN "raised" ELSE "done"
               /\ result' = out.result
    /\ calls' = IF model THEN Append(calls, "model") ELSE calls
    /\ UNCHANGED <<fact_check_key, newsapi_key, model, claim, domain, domain_key,
                   fcResp, fc, webResp, sources, jtext, jobj, jout, wResp, wOut, reqs, table>>

\* 3) the model is asked about the trusted sources of the domain
TrustedModelStage ==
    /\ pc = "model3"
    /\ prompt' = [stage |-> 3, domain |-> domain_key,
                  sources |-> DOMAIN_SOURCES[domain_key]]
    /\ \E r \in IF model THEN ModelResponses ELSE {NoModelResponse} :
        /\ modelResp' = r
        /\ LET out == Stage3(model, r, claim, domain_key)
           IN  /\ pc' = IF out.raised THEN "raised" ELSE "done"
               /\ result' = out.result
    /\ calls' = IF model THEN Append(calls, "model") ELSE calls
    /\ UNCHANGED <<fact_check_key, newsapi_key, model, claim, domain, domain_key,
                   fcResp, fc, webResp, sources, jtext, jobj, jout, wResp, wOut, reqs, table>>

Next ==
    \/ Request
    \/ FactCheckStage
    \/ WebSearchStage
    \/ WebModelStage
    \/ TrustedModelStage

Spec == Init /\ [][Next]_vars

\* ------------------------------------------------------------------------
\* _extract_json_from_text on its own, on every text of at most MaxLen tokens
\* ------------------------------------------------------------------------
Texts == UNION {[1..n -> Tokens] : n \in 0..MaxLen}

JsonInit ==
    /\ pc = "json_idle"
    /\ jtext \in Texts
    /\ jobj = FullDict
    /\ jout = NoDict
    /\ wResp = NoWebResponse
    /\ wOut = <<>>
    /\ reqs = <<>>
    /\ table = DOMAIN_SOURCES
    /\ fact_check_key = FALSE
    /\ newsapi_key = FALSE
    /\ model = FALSE
    /\ claim = ""
    /\ domain = OtherDomain
    /\ domain_key = "General"
    /\ fcResp = NoFcResponse
    /\ fc = FcBody("empty_dict", EmptyReview)
    /\ webResp = "none"
    /\ sources = <<>>
    /\ modelResp = NoModelResponse
    /\ prompt = NoPrompt
    /\ calls = <<>>
    /\ result = NoResult

ExtractJson ==
    /\ pc = "json_idle"
    /\ jout' = _extract_json_from_text(jtext, jobj)
    /\ pc' = "json_done"
    /\ UNCHANGED <<fact_check_key, newsapi_key, model, claim, domain, domain_key,
                   fcResp, fc, webResp, sources, modelResp, prompt, calls, result,
                   jtext, jobj, wResp, wOut, reqs, table>>

JsonNext == ExtractJson

SpecJson == JsonInit /\ [][JsonNext]_vars

\* ------------------------------------------------------------------------
\* verify_claim as one function of its arguments and of what the services
\* answer (sources is the value of web_verify)
\* ------------------------------------------------------------------------
verify_claim(c, d, fkey, mdl, fcR, srcs, mR) ==
    LET dk == DomainKey(d)
        f == fact_check_search(fkey, fcR)
        out2 == Stage2(mdl, mR, c, dk, srcs)
        out3 == Stage3(mdl, mR, c, dk)
    IN  IF Stage1Returns(f)
        THEN [pc |-> "done", result |-> Stage1Result(f, c, dk), prompt |-> NoPrompt]
        ELSE IF srcs # <<>>
        THEN [pc |-> IF out2.raised THEN "raised" ELSE "done", result |-> out2.result,
              prompt |-> [stage |-> 2, domain |-> dk, sources |-> srcs]]
        ELSE [pc |-> IF out3.raised THEN "raised" ELSE "done", result |-> out3.result,
              prompt |-> [stage |-> 3, domain |-> dk, sources |-> DOMAIN_SOURCES[dk]]]

\* ------------------------------------------------------------------------
\* Properties
\* ------------------------------------------------------------------------
\* verify_claim has ended, by returning or by raising
Ended == pc \in {"done", "raised"}
\* the fact-check stage is over
PastStage1 == pc \in {"stage2", "model2", "model3", "done", "raised"}
\* _generate_with_model returned and gave no text or a text without a dict
NoDictFromModel ==
    LET g == _generate_with_model(model, modelResp)
    IN  /\ ~g.raised
        /\ \/ ~TextTruthy(g)
           \/ ~_extract_json_from_text(g.toks, modelResp.obj).isDict

\* C1: no exception crosses the boundary of verify_claim, whatever the three
\* services do, the extraction of the text of a model response included.
C1_NoException == pc # "raised"

\* C2: every returned result has a confidence that is a number in [0,1]
\* (0..100 hundredths), also when the confidence comes from the model.
C2_ConfidenceInRange ==
    pc = "done" =>
        /\ result["confidence"].t = "num"
        /\ result["confidence"].n >= 0
        /\ result["confidence"].n <= 100

\* the claims value of the answer is a list with at least one entry
NonEmptyClaimsList(f) ==
    f.shape \in {"claim_not_dict", "no_review", "review_empty", "review_not_list",
                 "review_not_dict", "review_ok"}
\* the first claim is an object whose first review is an object (a claim
\* without claimReview counts as having one empty review)
FirstReviewUsable(f) == f.shape \in {"no_review", "review_ok"}

\* the result is the one of the fact-check stage and nothing else was called
FromFirstReview ==
    LET review == IF fc.shape = "review_ok" THEN fc.review ELSE EmptyReview
    IN  /\ pc = "done"
        /\ result["confidence"] = Num(95)
        /\ result["status"] \in
               {review["textualRating"], review["title"], Str("Unverified")}
        /\ result["explanation"] \in
               {review["title"], review["textualRating"], review["explanation"], Str("")}
        /\ calls = <<"factcheck">>
        /\ webResp = "none"
        /\ modelResp = NoModelResponse

\* C3 as stated: whenever the fact-check answer has a non-empty claims list,
\* the result has confidence 0.95, is derived from the first review, and
\* neither the news service nor the model is called.
C3_Original == (PastStage1 /\ NonEmptyClaimsList(fc)) => FromFirstReview

\* C3 amended: the same, whenever the claims list is non-empty and its first
\* claim is an object whose first review is an object (claimReview missing
\* counting as one empty review).
C3_FallbackOrdering == (PastStage1 /\ FirstReviewUsable(fc)) => FromFirstReview

C3_Witness ==
    /\ pc = "done"
    /\ newsapi_key /\ model
    /\ fc.shape = "review_ok"
    /\ fc.review["textualRating"] = Str("False")
    /\ fc.review["title"] = Str("Debunked by CDC")
    /\ result["status"] = Str("False")
    /\ result["explanation"] = Str("Debunked by CDC")
    /\ result["confidence"] = Num(95)

FromModelDict ==
    /\ pc = "done"
    /\ prompt.stage \in {2, 3}
    /\ ~NoDictFromModel

\* C6: a result made from a dict of the model has the six fields, status and
\* explanation strings, confidence a number, sources a list.
C6_TotalNormalization ==
    FromModelDict =>
        /\ \A k \in ResultKeys : Has(result, k)
        /\ result["status"].t = "str"
        /\ result["explanation"].t = "str"
        /\ result["confidence"].t = "num"
        /\ result["sources"].t = "list"

\* the title-cased domain is no key of the table, or the domain is no string
NotInTable(d) ==
    ~d.isStr \/ \A k \in DOMAIN DOMAIN_SOURCES : Spelling[k] # Title(d.chars)

\* C7: for a domain outside the table verify_claim ends as it does for
\* "General" with the same answers: same prompt (domain and trusted
\* sources), same result, same way of ending.
C7_DomainNormalization ==
    (Ended /\ NotInTable(domain)) =>
        [pc |-> pc, result |-> result, prompt |-> prompt] =
            verify_claim(claim, StrDomain(<<"G", "e", "n", "e", "r", "a", "l">>),
                         fact_check_key, model, fcResp, sources, modelResp)

C7_Witness ==
    /\ pc = "done"
    /\ domain = StrDomain(<<"b", "o", "g", "u", "s">>)
    /\ prompt = [stage |-> 3, domain |-> "General",
                 sources |-> <<"Reuters", "BBC", "AP News", "The Hindu">>]
    /\ result["domain"] = Str("General")
    /\ result["sources"] = List(<<"Reuters", "BBC", "AP News", "The Hindu">>)

\* C8: the domain of every returned result is the normalized domain key.
C8_ResultDomain == pc = "done" => result["domain"] = Str(domain_key)

\* an object
IsObjectText(t) == t = <<"{", "}">> \/ t = <<"{", "M", "}">>
\* t is an object between a and b
Wrapped(t, a, b) == \E o \in {<<"{", "}">>, <<"{", "M", "}">>} : t = a \o o \o b
InProse(t) ==
    \E m, n \in 0..MaxLen : Wrapped(t, [i \in 1..m |-> "W"], [i \in 1..n |-> "W"])
InFences(t) == Wrapped(t, <<"F">>, <<"F">>)

\* C9: _extract_json_from_text gives a dict for an object, an object in
\* prose and an object in fences, and None for a text without a brace block
\* and for a text that is as a whole a JSON array or scalar.
C9_Extraction ==
    pc = "json_done" =>
        /\ (IsObjectText(jtext) \/ InProse(jtext) \/ InFences(jtext)) => jout.isDict
        /\ ~HasBraceBlock(jtext) => ~jout.isDict
        /\ JsonKind(jtext) \in {"list", "scalar"} => ~jout.isDict

\* C10: the system always answers: a request that has ended has returned a
\* result with a status.
C10_AlwaysAnswers == Ended => (pc = "done" /\ Has(result, "status"))

\* the place of a service in the cascade
Rank(service) ==
    CASE service = "factcheck" -> 1 [] service = "web" -> 2 [] service = "model" -> 3

\* C11: the fact-check service, the news service and the model are each
\* called at most once, in that order; once the news service has given a
\* URL the request ends in stage 2 (the normalized dict of the model or the
\* 0.40 result) and the model is never asked about the trusted sources.
C11_NoRetries ==
    /\ \A i, j \in 1..Len(calls) : i < j => Rank(calls[i]) < Rank(calls[j])
    /\ sources # <<>> =>
        /\ pc # "model3"
        /\ prompt.stage # 3
        /\ pc = "done" =>
            /\ prompt.stage = 2
            /\ \/ ~NoDictFromModel
               \/ result["confidence"] = Num(40)

C11_Witness ==
    /\ pc = "done"
    /\ calls = <<"factcheck", "web", "model">>
    /\ sources = <<"u1">>
    /\ modelResp.shape = "text"
    /\ modelResp.pieces = <<(<<"W">>)>>
    /\ prompt.stage = 2
    /\ result["confidence"] = Num(40)

\* the answers on which a statement of the fact-check branch raises: claims
\* is a number or an object, the first claim is no object, claimReview is
\* empty or null, the first review is no object
Stage1Throws(f) ==
    f.shape \in {"claims_number", "claims_dict", "claim_not_dict", "review_empty",
                 "review_not_list", "review_not_dict"}

\* C12: an exception raised while the fact-check answer is processed is
\* swallowed: the cascade goes on with the news search and stage 1 gives no
\* result.
C12_Stage1Swallows ==
    (PastStage1 /\ Stage1Throws(fc)) =>
        /\ pc = "stage2" \/ pc \in {"model2", "model3"} \/ prompt.stage \in {2, 3}
        /\ pc = "stage2" => result = NoResult
        /\ pc = "done" => prompt.stage # 0

C12_Witness ==
    /\ pc = "model2"
    /\ fc.shape = "review_empty"
    /\ calls = <<"factcheck", "web">>
    /\ sources = <<"u1", "u2">>
    /\ result = NoResult

\* the service was called
Called(service) == \E i \in 1..Len(calls) : calls[i] = service

\* the result is the 0.40 result of stage 2
IsDegraded ==
    /\ pc = "done"
    /\ result["status"] = Str("Unverified")
    /\ result["confidence"] = Num(40)
    /\ result["sources"] = List(sources)

\* the result is the 0.30 result with the trusted sources of the domain
IsFallback ==
    /\ pc = "done"
    /\ result["status"] = Str("Unverified")
    /\ result["confidence"] = Num(30)
    /\ result["sources"] = List(DOMAIN_SOURCES[DomainKey(domain)])

\* C13: a missing credential disables its stage without an error: no call
\* and Empty for the fact-check stage, no call and no URL for the news
\* search, no call of the model and the 0.40 result (URLs found) or the 0.30
\* result (none found); with all three missing the result is the 0.30 one.
C13_MissingCredentials ==
    /\ (~fact_check_key /\ PastStage1) =>
        /\ ~Called("factcheck")
        /\ fc.shape = "empty_dict"
        /\ pc = "done" => prompt.stage # 0
    /\ ~newsapi_key => (~Called("web") /\ sources = <<>>)
    /\ ~model =>
        /\ ~Called("model")
        /\ (Ended /\ prompt.stage # 0 /\ sources # <<>>) => IsDegraded
        /\ (Ended /\ prompt.stage # 0 /\ sources = <<>>) => IsFallback
    /\ (~fact_check_key /\ ~newsapi_key /\ ~model /\ Ended) =>
        (IsFallback /\ calls = <<>>)

C13_Witness ==
    /\ ~fact_check_key /\ ~newsapi_key /\ ~model
    /\ pc = "done"
    /\ domain = StrDomain(<<"C", "L", "I", "M", "A", "T", "E">>)
    /\ calls = <<>>
    /\ result["confidence"] = Num(30)
    /\ result["sources"] = List(<<"IPCC", "NASA Climate", "NOAA", "UNEP", "MoEFCC India">>)

\* a string that is not empty
NonEmptyStr(v) == v.t = "str" /\ v.s # ""

\* the request ended with the result of the fact-check stage
FromStage1 == pc = "done" /\ prompt.stage = 0

\* C14: in a result of stage 1, status is textualRating if non-empty, else
\* title if non-empty, else "Unverified"; explanation is title, else
\* textualRating, else explanation, else ""; sources is the list of the URL
\* of the review, or empty without a URL; claim is the input and domain the
\* normalized key.
C14_Stage1Fields ==
    FromStage1 =>
        LET review == IF fc.shape = "review_ok" THEN fc.review ELSE EmptyReview
            rating == review["textualRating"]
            title == review["title"]
            expl == review["explanation"]
            url == review["url"]
        IN  /\ result["status"] =
                   IF NonEmptyStr(rating) THEN rating
                   ELSE IF NonEmptyStr(title) THEN title ELSE Str("Unverified")
            /\ result["explanation"] =
                   IF NonEmptyStr(title) THEN title
                   ELSE IF NonEmptyStr(rating) THEN rating
                   ELSE IF NonEmptyStr(expl) THEN expl ELSE Str("")
            /\ result["sources"] =
                   IF NonEmptyStr(url) THEN List(<<url.s>>) ELSE List(<<>>)
            /\ result["claim"] = Str(claim)
            /\ result["domain"] = Str(DomainKey(domain))
            /\ DomainKey(domain) \in DOMAIN DOMAIN_SOURCES

C14_Witness ==
    /\ FromStage1
    /\ fc.shape = "review_ok"
    /\ fc.review["textualRating"] = Str("False")
    /\ fc.review["title"] = Str("Debunked by CDC")
    /\ fc.review["url"] = Str("https://cdc.gov/x")
    /\ domain = StrDomain(<<"h", "e", "a", "l", "t", "h">>)
    /\ result = Result(Str("Vaccines cause autism"), Str("Health"), Str("False"),
                       Num(95), Str("Debunked by CDC"), List(<<"https://cdc.gov/x">>))

\* the dict extracted from the text of the model
ModelDict ==
    _extract_json_from_text(_generate_with_model(model, modelResp).toks,
                            modelResp.obj).d

\* a value that is there and not empty: a list with an element, a string
\* with a character
PresentNonEmpty(v) == (v.t = "list" /\ v.l # <<>>) \/ (v.t = "str" /\ v.s # "")

\* C15: in a result made from a dict of the model the sources are those of
\* the dict if present and non-empty, and otherwise the fallback list of the
\* stage: the URLs of the news search in stage 2, the trusted sources of the
\* domain in stage 3.
C15_SourcesSubstitution ==
    FromModelDict =>
        LET own == ModelDict["sources"]
            fallback == IF prompt.stage = 2 THEN sources
                        ELSE DOMAIN_SOURCES[DomainKey(domain)]
        IN  result["sources"] = IF PresentNonEmpty(own) THEN own ELSE List(fallback)

C15_Witness ==
    /\ FromModelDict
    /\ prompt.stage = 2
    /\ sources = <<"u1">>
    /\ ModelDict["sources"] = List(<<"m1", "m2">>)
    /\ result["sources"] = List(<<"m1", "m2">>)

\* C18: every result that does not come from the fact-check stage has a
\* non-empty sources value, every domain of the table having a non-empty
\* list; an empty sources list occurs only in a result of stage 1 whose
\* review has no URL.
C18_NonEmptySources ==
    /\ \A k \in DOMAIN DOMAIN_SOURCES : DOMAIN_SOURCES[k] # <<>>
    /\ (pc = "done" /\ prompt.stage \in {2, 3}) => PresentNonEmpty(result["sources"])
    /\ (pc = "done" /\ ~PresentNonEmpty(result["sources"])) =>
        /\ FromStage1
        /\ result["sources"] = List(<<>>)
        /\ ~NonEmptyStr((IF fc.shape = "review_ok" THEN fc.review ELSE EmptyReview)["url"])

C18_Witness ==
    /\ pc = "done"
    /\ prompt.stage = 3
    /\ FromModelDict
    /\ ModelDict["sources"] = List(<<>>)
    /\ domain = StrDomain(<<"b", "o", "g", "u", "s">>)
    /\ result["sources"] = List(<<"Reuters", "BBC", "AP News", "The Hindu">>)

\* ------------------------------------------------------------------------
\* web_verify on its own, on every answer of at most MaxArticles articles
\* ------------------------------------------------------------------------
\* the variables of the single request of Spec, with no request made
NoRequest ==
    /\ claim = ""
    /\ domain = OtherDomain
    /\ domain_key = "General"
    /\ fcResp = NoFcResponse
    /\ fc = FcBody("empty_dict", EmptyReview)
    /\ webResp = "none"
    /\ sources = <<>>
    /\ modelResp = NoModelResponse
    /\ prompt = NoPrompt
    /\ calls = <<>>
    /\ result = NoResult

WebInit ==
    /\ pc = "web_idle"
    /\ newsapi_key \in BOOLEAN
    /\ wResp \in IF newsapi_key THEN WebResponses ELSE {NoWebResponse}
    /\ wOut = <<>>
    /\ fact_check_key = FALSE
    /\ model = FALSE
    /\ NoRequest
    /\ jtext = <<>>
    /\ jobj = EmptyDict
    /\ jout = NoDict
    /\ reqs = <<>>
    /\ table = DOMAIN_SOURCES

WebVerify ==
    /\ pc = "web_idle"
    /\ wOut' = web_verify(newsapi_key, wResp)
    /\ pc' = "web_done"
    /\ UNCHANGED <<fact_check_key, newsapi_key, model, claim, domain, domain_key,
                   fcResp, fc, webResp, sources, modelResp, prompt, calls, result,
                   jtext, jobj, jout, wResp, reqs, table>>

WebNext == WebVerify

SpecWeb == WebInit /\ [][WebNext]_vars

\* C16: web_verify returns at most 3 URLs, in the order of the articles of
\* the answer, none of them missing or empty; without a credential and on
\* every failure (transport error, malformed body, articles of a wrong
\* shape) it returns the empty list.
C16_WebVerify ==
    pc = "web_done" =>
        /\ Len(wOut) <= 3
        /\ \A i \in 1..Len(wOut) : wOut[i] # ""
        /\ \E f \in [1..Len(wOut) -> 1..Len(wResp.articles)] :
            /\ \A i, j \in 1..Len(wOut) : i < j => f[i] < f[j]
            /\ \A i \in 1..Len(wOut) : wResp.articles[f[i]] = Str(wOut[i])
        /\ (~newsapi_key \/ wResp.outcome # "ok") => wOut = <<>>

C16_Witness ==
    /\ pc = "web_done"
    /\ wResp.outcome = "ok"
    /\ wResp.articles = <<Str("u2"), Absent, Str("u1"), Str("u2")>>
    /\ wOut = <<"u2", "u1">>

\* ------------------------------------------------------------------------
\* Concurrent requests: each has its own local variables; the credentials,
\* the model and DOMAIN_SOURCES are the globals they all read
\* ------------------------------------------------------------------------
\* number of concurrent requests
NReq == 2

Requests == 1..NReq

ConcDomains ==
    {StrDomain(<<"h", "e", "a", "l", "t", "h">>), StrDomain(<<"b", "o", "g", "u", "s">>)}

ConcFcResponses ==
    {[outcome |-> "non200", body |-> FcBody("empty_dict", EmptyReview)],
     [outcome |-> "ok",
      body |-> FcBody("review_ok",
                      [textualRating |-> Str("False"), title |-> Str("Debunked by CDC"),
                       explanation |-> Absent, url |-> Str("https://cdc.gov/x")])]}

ConcWebResponses ==
    {[outcome |-> "ok", articles |-> <<>>],
     [outcome |-> "ok", articles |-> <<Str("u1")>>]}

ConcModelResponses ==
    {ModelResponse("request_failed", <<>>, EmptyDict),
     ModelResponse("text_raises", <<>>, EmptyDict),
     ModelResponse("text", <<(<<"W">>)>>, EmptyDict),
     ModelResponse("text", <<(<<"{", "M", "}">>)>>, Put(EmptyDict, "status", Str("False")))}

\* the locals of a request that has not started
IdleRequest ==
    [pc |-> "idle", claim |-> "", domain |-> OtherDomain, domain_key |-> "General",
     fcResp |-> NoFcResponse, sources |-> <<>>, modelResp |-> NoModelResponse,
     prompt |-> NoPrompt, result |-> NoResult]

\* DOMAIN_SOURCES.pop(domain_key, []): the list, and the table without it
LookupTrusted_Pops(t, dk) == [list |-> t[dk], table |-> [t EXCEPT ![dk] = <<>>]]

\* DOMAIN_SOURCES.get(domain_key, []): the list, and the table as it was
LookupTrusted(t, dk) == [list |-> t[dk], table |-> t]

ConcInit ==
    /\ pc = "conc"
    /\ fact_check_key = TRUE
    /\ newsapi_key = TRUE
    /\ model = TRUE
    /\ reqs = [r \in Requests |-> IdleRequest]
    /\ table = DOMAIN_SOURCES
    /\ NoRequest
    /\ jtext = <<>>
    /\ jobj = EmptyDict
    /\ jout = NoDict
    /\ wResp = NoWebResponse
    /\ wOut = <<>>

\* nothing but the locals of the requests and the table changes
ConcUnchanged ==
    UNCHANGED <<pc, fact_check_key, newsapi_key, model, claim, domain, domain_key,
                fcResp, fc, webResp, sources, modelResp, prompt, calls, result,
                jtext, jobj, jout, wResp, wOut>>

ConcRequest(r) ==
    /\ reqs[r].pc = "idle"
    /\ \E c \in Claims, d \in ConcDomains :
        reqs' = [reqs EXCEPT ![r] = [@ EXCEPT !.pc = "stage1", !.claim = c,
                                               !.domain = d, !.domain_key = DomainKey(d)]]
    /\ table' = table
    /\ ConcUnchanged

ConcFactCheck(r) ==
    /\ reqs[r].pc = "stage1"
    /\ \E a \in ConcFcResponses :
        LET q == reqs[r]
            f == fact_check_search(fact_check_key, a)
        IN  reqs' = [reqs EXCEPT ![r] =
                IF Stage1Returns(f)
                THEN [q EXCEPT !.pc = "done", !.fcResp = a,
                               !.result = Stage1Result(f, q.claim, q.domain_key)]
                ELSE [q EXCEPT !.pc = "stage2", !.fcResp = a]]
    /\ table' = table
    /\ ConcUnchanged

ConcWebSearch(r) ==
    /\ reqs[r].pc = "stage2"
    /\ \E a \in ConcWebResponses :
        LET urls == web_verify(newsapi_key, a)
        IN  reqs' = [reqs EXCEPT ![r] =
                [@ EXCEPT !.pc = IF urls # <<>> THEN "model2" ELSE "model3",
                          !.sources = urls]]
    /\ table' = table
    /\ ConcUnchanged

ConcWebModel(r) ==
    /\ reqs[r].pc = "model2"
    /\ \E a \in ConcModelResponses :
        LET q == reqs[r]
            out == Stage2(model, a, q.claim, q.domain_key, q.sources)
        IN  reqs' = [reqs EXCEPT ![r] =
                [@ EXCEPT !.pc = IF out.raised THEN "raised" ELSE "done",
                          !.modelResp = a,
                          !.prompt = [stage |-> 2, domain |-> q.domain_key,
                                      sources |-> q.sources],
                          !.result = out.result]]
    /\ table' = table
    /\ ConcUnchanged

ConcTrustedModel(r) ==
    /\ reqs[r].pc = "model3"
    /\ \E a \in ConcModelResponses :
        LET q == reqs[r]
            found == LookupTrusted(table, q.domain_key)
            out == Stage3From(model, a, q.claim, q.domain_key, found.list)
        IN  /\ reqs' = [reqs EXCEPT ![r] =
                   [@ EXCEPT !.pc = IF out.raised THEN "raised" ELSE "done",
                             !.modelResp = a,
                             !.prompt = [stage |-> 3, domain |-> q.domain_key,
                                         sources |-> found.list],
                             !.result = out.result]]
            /\ table' = found.table
    /\ ConcUnchanged

ConcNext ==
    \E r \in Requests :
        \/ ConcRequest(r)
        \/ ConcFactCheck(r)
        \/ ConcWebSearch(r)
        \/ ConcWebModel(r)
        \/ ConcTrustedModel(r)

SpecConc == ConcInit /\ [][ConcNext]_vars

\* C17: under every interleaving each request ends as it would alone with
\* the same answers of the services, and the trusted-source table stays as
\* it was at initialization.
C17_Independence ==
    /\ table = DOMAIN_SOURCES
    /\ \A r \in DOMAIN reqs :
        reqs[r].pc \in {"done", "raised"} =>
            [pc |-> reqs[r].pc, result |-> reqs[r].result, prompt |-> reqs[r].prompt] =
                verify_claim(reqs[r].claim, reqs[r].domain, fact_check_key, model,
                             reqs[r].fcResp, reqs[r].sources, reqs[r].modelResp)

C17_Witness ==
    /\ pc = "conc"
    /\ \A r \in Requests :
        /\ reqs[r].pc = "done"
        /\ reqs[r].domain = StrDomain(<<"h", "e", "a", "l", "t", "h">>)
        /\ reqs[r].prompt.stage = 3
        /\ reqs[r].result["sources"] =
               List(<<"WHO", "CDC", "NIH", "ICMR", "PubMed", "MedlinePlus">>)
    /\ reqs[1].result["confidence"] = Num(30)
    /\ reqs[2].result["status"] = Str("False")

====
